---- MODULE Spec2Model ----
(***************************************************************************)
(* Model of the ETF RAG agent's document store policy                      *)
(* (app/vector_store/weaviate_handler.py), of its retrieval policy         *)
(* (app/retriever/query_handler.py, app/model), of the collector's         *)
(* insertion loop (app/crawler/collector.py) and of the two entry points   *)
(* of question answering (app/main.py, app/connect_rpc.py).                *)
(*                                                                         *)
(* The Weaviate collection is a set of objects.  Text is a sequence of     *)
(* blocks of 100 characters, so that slicing (content[:200]) is computed,  *)
(* not assumed.  Similarity scores are percentages (0..100).               *)
(*                                                                         *)
(* faults is the set of calls to the store or to the model provider that   *)
(* raise an exception when they are made; it is empty unless a             *)
(* specification lets the environment change it.                           *)
(***************************************************************************)
EXTENDS Integers, Sequences, FiniteSets, TLC

VARIABLES store, clock, settings, last, faults, threads, handlers, scheduler

vars == <<store, clock, settings, last, faults, threads, handlers, scheduler>>

\* what the operations of the store and of the retriever leave alone: the
\* calls in progress in other threads, the shared handler objects of the two
\* servers and the scheduler's components
process == <<threads, handlers, scheduler>>

-----------------------------------------------------------------------------
(* Bounds of the model *)

\* number of insert attempts that reach the write (datetime.now() ticks)
MaxInserts == 3

\* largest keep_versions argument tried on delete_old_versions
MaxKeep == 2

-----------------------------------------------------------------------------
(* Program constants *)

\* settings.top_k_results
top_k_results == 5

\* settings.similarity_threshold (0.7), in percent
similarity_threshold == 70

\* result["content"][:200] in RAGQueryHandler.query, in blocks
QueryPreviewBlocks == 2

\* latest["content"][:500] in RAGQueryHandler.get_etf_summary, in blocks
SummaryPreviewBlocks == 5

\* limit=10 in RAGQueryHandler.get_etf_summary
SummaryLimit == 10

\* min_certainty=0.0 in RAGQueryHandler.get_etf_summary, in percent
SummaryMinCertainty == 0

\* settings.embedding_dim, the length of the vectors of the provider
embedding_dim == 1536

\* len([0.0] * 1536), the dummy vector of get_etf_summary
DummyDim == 1536

\* the length of the vectors of all-MiniLM-L6-v2, the embedding model of
\* LocalModel
LocalEmbeddingDim == 384

-----------------------------------------------------------------------------
(* Inputs *)

\* candidate documents as the collectors format them
\* (etf_code, etf_name, source, etf_type, category)
Candidates ==
    { [etf_code |-> "069500", etf_name |-> "KODEX 200", source |-> "naver",
       etf_type |-> "domestic", category |-> "kr"],
      [etf_code |-> "SPY", etf_name |-> "SPDR S&P 500", source |-> "yfinance",
       etf_type |-> "foreign", category |-> ""] }

Codes == { c.etf_code : c \in Candidates }

\* document bodies: two short ones and one longer than both preview lengths
Bodies == { <<"A">>, <<"B">>, <<"C", "c", "c", "c", "c", "c">> }

\* questions put to RAGQueryHandler.query
Questions == { <<"A">>, <<"C", "?">> }

\* filters argument of RAGQueryHandler.query: a set of <<key, value>> pairs
\* (the empty set stands for None / {})
FilterChoices ==
    { {}, { <<"etf_type", "domestic">> },
      { <<"etf_type", "foreign">>, <<"etf_code", "SPY">> } }

\* top_k argument of RAGQueryHandler.query; 0 stands for None
TopKChoices == { 0, 1 }

-----------------------------------------------------------------------------
(* Pure helpers *)

Min(a, b) == IF a <= b THEN a ELSE b

Abs(x) == IF x < 0 THEN 0 - x ELSE x

\* s[:n]
Slice(s, n) == SubSeq(s, 1, Min(Len(s), n))

\* hashlib.sha256(content.encode()).hexdigest(): a deterministic digest,
\* collision-free on the bodies of the model
_compute_content_hash(content) == <<"sha256", Len(content), content>>

\* model.get_embedding(text): the direction of the vector is decided by the
\* leading block of the text
EmbeddingDir(text) ==
    IF text = <<>> THEN 0
    ELSE IF text[1] = "A" THEN 0 ELSE IF text[1] = "B" THEN 1 ELSE 2

\* the two providers of ModelFactory.get_model
ModelTypes == { "openai", "local" }

\* the length of the vectors a provider makes: OpenAIModel embeds with
\* text-embedding-3-small, LocalModel with all-MiniLM-L6-v2
ProviderDim(model_type) ==
    IF model_type = "openai" THEN embedding_dim ELSE LocalEmbeddingDim

\* get_embedding of the model that settings.llm_provider selects
get_embedding(text) ==
    [dim |-> ProviderDim(settings.llm_provider), dir |-> EmbeddingDir(text),
     zero |-> FALSE]

\* whether a call of get_embedding(text) returns (TRUE) or raises (FALSE):
\* it raises what the provider raises ("except Exception: raise"), and the
\* embeddings endpoint of the remote provider may refuse an empty input
EmbeddingOutcomes(text) ==
    IF "get_embedding" \in faults THEN { FALSE }
    ELSE IF text = <<>> /\ settings.llm_provider = "openai" THEN BOOLEAN
    ELSE { TRUE }

\* [0.0] * 1536
dummy_vector == [dim |-> DummyDim, dir |-> 0, zero |-> TRUE]

\* obj.metadata.certainty for a cosine index, in percent: (1 + cos) / 2.
\* Against the zero vector every object has cosine 0.
Certainty(qv, v) ==
    IF qv.zero \/ v.zero THEN 50
    ELSE 100 - 30 * Abs(qv.dir - v.dir)

-----------------------------------------------------------------------------
(* The Weaviate collection, as the handler uses it *)

\* the calls that can raise: those of the collection made by WeaviateHandler
\* (the fetch of _check_duplicate, the fetch of _get_latest_version,
\* data.insert, the fetch of delete_old_versions, data.delete_by_id,
\* query.near_vector) and those of the model provider (get_embedding, generate)
FaultPoints ==
    { "fetch_duplicate", "fetch_latest", "data_insert", "fetch_versions",
      "delete_by_id", "near_vector", "get_embedding", "generate" }

\* Filter.by_property(key).equal(value), conjoined with & over all pairs
MatchesFilters(obj, filters) == \A kv \in filters : obj[kv[1]] = kv[2]

Matching(S, filters) == { obj \in S : MatchesFilters(obj, filters) }

\* the lists of n distinct members of T (of all of T when it has fewer)
RECURSIVE Listings(_, _)
Listings(T, n) ==
    IF n = 0 \/ T = {} THEN { <<>> }
    ELSE UNION { { <<x>> \o f : f \in Listings(T \ {x}, n - 1) } : x \in T }

\* collection.query.fetch_objects(filters=..., limit=n): at most n of the
\* matching objects; the collection defines no order among them
\* (0 stands for no limit argument)
fetch_objects(S, filters, limit) ==
    LET found == Matching(S, filters)
    IN  Listings(found, IF limit = 0 THEN Cardinality(found) ELSE limit)

\* the members of T nearest to qv
Nearest(T, qv) ==
    { x \in T : \A y \in T : Certainty(qv, x.vector) >= Certainty(qv, y.vector) }

\* the lists of the n nearest members of T, nearest first; ties in any order
RECURSIVE NearestFirst(_, _, _)
NearestFirst(T, qv, n) ==
    IF n = 0 \/ T = {} THEN { <<>> }
    ELSE UNION { { <<x>> \o f : f \in NearestFirst(T \ {x}, qv, n - 1) } :
                 x \in Nearest(T, qv) }

\* collection.query.near_vector(near_vector=qv, limit=n, filters=...)
near_vector(S, qv, limit, filters) ==
    NearestFirst(Matching(S, filters), qv, limit)

\* the collection cannot compare a query vector with a stored vector of
\* another length: the search fails with "vector lengths don't match"
DimensionMismatch(S, qv, filters) ==
    \E obj \in Matching(S, filters) : obj.vector.dim # qv.dim

\* the vector index takes its length from the first vector it gets and
\* refuses a new object whose vector has another length: data.insert raises
VectorRejected(S, vector) ==
    \E obj \in S : obj.vector.dim # vector.dim

\* a write that stores nothing
data_insert_dropped(S, obj) == S

\* a write that takes the place of the stored objects of the same etf_code
data_insert_replacing(S, obj) ==
    { d \in S : d.etf_code # obj.etf_code } \cup { obj }

\* collection.data.insert(properties=..., vector=...): one new object
data_insert(S, obj) == S \cup { obj }

-----------------------------------------------------------------------------
(* WeaviateHandler *)

\* a lookup that never finds anything
_check_duplicate_never(S, etf_code, content_hash) == FALSE

\* a lookup that fetches one object of the identifier and compares its hash
_check_duplicate_one_fetched(S, etf_code, content_hash) ==
    \A res \in fetch_objects(S, { <<"etf_code", etf_code>> }, 1) :
        Len(res) > 0 /\ res[1].content_hash = content_hash

\* len(results.objects) > 0 for the objects with this etf_code and
\* content_hash; "except Exception: return False" when the fetch raises
_check_duplicate(S, etf_code, content_hash) ==
    IF "fetch_duplicate" \in faults THEN FALSE
    ELSE \E res \in fetch_objects(S, { <<"etf_code", etf_code>>,
                                       <<"content_hash", content_hash>> }, 1) :
            Len(res) > 0

\* max(versions) over a non-empty list
MaxOf(versions) ==
    CHOOSE m \in { versions[i] : i \in 1..Len(versions) } :
        \A i \in 1..Len(versions) : versions[i] <= m

\* the values _get_latest_version can return: the fetch is limited to one
\* object, and the maximum is taken over what was fetched;
\* "except Exception: return 0" when the fetch raises
_get_latest_version(S, etf_code) ==
    IF "fetch_latest" \in faults THEN { 0 }
    ELSE { IF Len(res) > 0 THEN MaxOf([i \in 1..Len(res) |-> res[i].version]) ELSE 0 :
             res \in fetch_objects(S, { <<"etf_code", etf_code>> }, 1) }

\* a version numbering that consults the stored versions whatever
\* KEEP_HISTORY says
next_version_counting(S, etf_code) ==
    { latest + 1 : latest \in _get_latest_version(S, etf_code) }

\* "if settings.keep_history: version = self._get_latest_version(etf_code) + 1
\*  else: version = 1": the versions the next document of etf_code can get
next_version(S, etf_code) ==
    IF settings.keep_history
    THEN { latest + 1 : latest \in _get_latest_version(S, etf_code) }
    ELSE { 1 }

\* an insert whose version is the store's time of insertion, not the
\* version the caller worked out
NewObjectStamped(cand, content, vector, version, now) ==
    [ uuid         |-> now,
      etf_code     |-> cand.etf_code,
      etf_name     |-> cand.etf_name,
      content      |-> content,
      content_hash |-> _compute_content_hash(content),
      date         |-> now,
      version      |-> now,
      source       |-> cand.source,
      etf_type     |-> cand.etf_type,
      category     |-> cand.category,
      vector       |-> vector ]

\* the properties and vector handed to collection.data.insert
NewObject(cand, content, vector, version, now) ==
    [ uuid         |-> now,
      etf_code     |-> cand.etf_code,
      etf_name     |-> cand.etf_name,
      content      |-> content,
      content_hash |-> _compute_content_hash(content),
      date         |-> now,
      version      |-> version,
      source       |-> cand.source,
      etf_type     |-> cand.etf_type,
      category     |-> cand.category,
      vector       |-> vector ]

\* insert_document(etf_code, etf_name, content, vector, source, etf_type,
\*                 category, check_duplicate): returns None for a duplicate
\* ("skipped"), the uuid of the new object ("inserted"), or raises what
\* data.insert raised ("raised")
insert_document(cand, content, vector, check_duplicate) ==
    LET content_hash == _compute_content_hash(content)
        call == [ op |-> "insert", etf_code |-> cand.etf_code, content |-> content,
                  check_duplicate |-> check_duplicate ]
    IN  IF check_duplicate /\ settings.enable_duplicate_check
           /\ _check_duplicate(store, cand.etf_code, content_hash)
        THEN /\ last' = call @@ [ status |-> "skipped", uuid |-> 0, version |-> 0 ]
             /\ UNCHANGED <<store, clock, settings, faults, process>>
        ELSE IF "data_insert" \in faults \/ VectorRejected(store, vector)
        THEN /\ last' = call @@ [ status |-> "raised", uuid |-> 0, version |-> 0 ]
             /\ UNCHANGED <<store, clock, settings, faults, process>>
        ELSE /\ clock < MaxInserts
             /\ \E version \in next_version(store, cand.etf_code) :
                  LET now == clock + 1
                  IN  /\ store' = data_insert(store,
                                     NewObject(cand, content, vector, version, now))
                      /\ clock' = now
                      /\ last' = call @@ [ status |-> "inserted", uuid |-> now,
                                           version |-> version ]
             /\ UNCHANGED <<settings, faults, process>>

\* the same without reverse=True: an ascending sort
InsertAsc(sorted, obj) ==
    LET k == Cardinality({ i \in 1..Len(sorted) : sorted[i].version <= obj.version })
    IN  SubSeq(sorted, 1, k) \o <<obj>> \o SubSeq(sorted, k + 1, Len(sorted))

\* where a stable descending sort puts obj in the sorted list "sorted", obj
\* coming after all of its members in the unsorted list
InsertDesc(sorted, obj) ==
    LET k == Cardinality({ i \in 1..Len(sorted) : sorted[i].version >= obj.version })
    IN  SubSeq(sorted, 1, k) \o <<obj>> \o SubSeq(sorted, k + 1, Len(sorted))

\* sorted(results.objects, key=version, reverse=True): a stable sort, so
\* objects of equal version keep their fetched order
RECURSIVE SortedByVersionDesc(_)
SortedByVersionDesc(objects) ==
    IF objects = <<>> THEN <<>>
    ELSE InsertDesc(SortedByVersionDesc(SubSeq(objects, 1, Len(objects) - 1)),
                    objects[Len(objects)])

\* versions[keep_versions + 1:]
VersionsFromOneLater(versions, keep_versions) ==
    { versions[i] : i \in { k \in 1..Len(versions) : k > keep_versions + 1 } }

\* versions[keep_versions:]
VersionsFrom(versions, keep_versions) ==
    { versions[i] : i \in { k \in 1..Len(versions) : k > keep_versions } }

\* the objects of versions[keep_versions:] that the loop deleted before it
\* reached the k-th of them
DeletedBefore(versions, keep_versions, k) ==
    { versions[i] : i \in (keep_versions + 1)..(keep_versions + k - 1) }

\* delete_old_versions(etf_code, keep_versions).  The body is inside
\* "try: ... except Exception as e: logger.error(...)": when the fetch or a
\* delete_by_id raises, the error is logged and the method returns as it
\* does after a complete run, keeping the deletions made before the error.
delete_old_versions(etf_code, keep_versions) ==
    LET call == [ op |-> "prune", etf_code |-> etf_code,
                  keep_versions |-> keep_versions, raised |-> FALSE ]
    IN  IF "fetch_versions" \in faults
        THEN /\ last' = call @@ [ deleted |-> 0, logged_error |-> TRUE ]
             /\ UNCHANGED <<store, clock, settings, faults, process>>
        ELSE \E results \in fetch_objects(store, { <<"etf_code", etf_code>> }, 0) :
            IF Len(results) <= keep_versions
            THEN /\ last' = call @@ [ deleted |-> 0, logged_error |-> FALSE ]
                 /\ UNCHANGED <<store, clock, settings, faults, process>>
            ELSE LET versions == SortedByVersionDesc(results)
                 IN  IF "delete_by_id" \in faults
                     THEN \E k \in 1..(Len(versions) - keep_versions) :
                            /\ store' = store \ DeletedBefore(versions, keep_versions, k)
                            /\ last' = call @@ [ deleted |-> k - 1,
                                                 logged_error |-> TRUE ]
                            /\ UNCHANGED <<clock, settings, faults, process>>
                     ELSE /\ store' = store \ VersionsFrom(versions, keep_versions)
                          /\ last' = call @@ [ deleted |-> Len(versions) - keep_versions,
                                               logged_error |-> FALSE ]
                          /\ UNCHANGED <<clock, settings, faults, process>>

\* certainty > min_certainty
PassesThresholdStrict(certainty, min_certainty) == certainty > min_certainty

\* certainty >= min_certainty
PassesThreshold(certainty, min_certainty) == certainty >= min_certainty

\* one entry of formatted_results
FormatResult(obj, certainty) ==
    [ uuid      |-> obj.uuid,
      content   |-> obj.content,
      certainty |-> certainty,
      metadata  |-> [ etf_code |-> obj.etf_code,
                      etf_name |-> obj.etf_name,
                      date     |-> obj.date,
                      version  |-> obj.version,
                      source   |-> obj.source,
                      etf_type |-> obj.etf_type,
                      category |-> obj.category ] ]

\* the loop over results.objects: objects under min_certainty are dropped,
\* the others are formatted in the order the collection returned them
FormatResults(objects, query_vector, min_certainty) ==
    LET Keep(obj) == PassesThreshold(Certainty(query_vector, obj.vector), min_certainty)
        kept == SelectSeq(objects, Keep)
    IN  [ i \in 1..Len(kept) |->
            FormatResult(kept[i], Certainty(query_vector, kept[i].vector)) ]

\* whether search raises: near_vector raised, and "except Exception: raise"
search_raises(S, query_vector, filters) ==
    \/ "near_vector" \in faults
    \/ DimensionMismatch(S, query_vector, filters)

\* the lists search(query_vector, limit, filters, min_certainty) can return
\* when it does not raise
search(S, query_vector, limit, filters, min_certainty) ==
    { FormatResults(objects, query_vector, min_certainty) :
        objects \in near_vector(S, query_vector, limit, filters) }

\* what a caller that reads only results[0] and len(results) can get from
\* search when the list is not empty.  The objects come nearest first, so
\* results[0] is made from one of the nearest matching objects when that
\* one passes min_certainty, and the objects that pass are at the front of
\* the limit objects fetched.
SearchHeads(S, query_vector, limit, filters, min_certainty) ==
    LET found   == Matching(S, filters)
        Keep(obj) == PassesThreshold(Certainty(query_vector, obj.vector), min_certainty)
        passing == { obj \in found : Keep(obj) }
    IN  IF limit = 0 THEN {}
        ELSE { [ first |-> FormatResult(obj, Certainty(query_vector, obj.vector)),
                 count |-> Min(limit, Cardinality(passing)) ] :
               obj \in Nearest(found, query_vector) \cap passing }

-----------------------------------------------------------------------------
(* RAGQueryHandler *)

NoGroundingAnswer == "no related ETF information found"

\* step 3 of query: context_docs
ContextDocs(results) ==
    [ i \in 1..Len(results) |->
        [ content |-> results[i].content, metadata |-> results[i].metadata ] ]

\* generate_with_context: the numbered sections of the prompt
\* "[doc i] etf_name (date, source)\n content"
ContextParts(context_docs) ==
    [ i \in 1..Len(context_docs) |->
        [ number   |-> i,
          etf_name |-> context_docs[i].metadata.etf_name,
          date     |-> context_docs[i].metadata.date,
          source   |-> context_docs[i].metadata.source,
          content  |-> context_docs[i].content ] ]

\* enumerate(results) without the start argument
RankFromZero(i) == i - 1

\* the rank given to the i-th result: enumerate(results, 1)
Rank(i) == i

\* step 5 of query: sources
Sources(results) ==
    [ i \in 1..Len(results) |->
        [ rank      |-> Rank(i),
          etf_name  |-> results[i].metadata.etf_name,
          etf_code  |-> results[i].metadata.etf_code,
          source    |-> results[i].metadata.source,
          date      |-> results[i].metadata.date,
          relevance |-> results[i].certainty,
          preview   |-> Slice(results[i].content, QueryPreviewBlocks) \o <<"...">> ] ]

\* a query that never takes the early return
GroundedAlways(results) == TRUE

\* whether query goes on to generation: "if not results: return ..."
Grounded(results) == results # <<>>

\* OpenAIModel.generate ends in "except Exception: raise";
\* LocalModel.generate ends in "except Exception: return
\* self._generate_simple_summary(prompt)"
GenerationRaises ==
    settings.llm_provider = "openai" /\ "generate" \in faults

\* the text generate_with_context returns when it returns
GeneratedAnswer ==
    IF "generate" \in faults THEN "simple summary" ELSE "generated"

\* what query does not return when it raises
NoResponse == [ answer |-> "", sources |-> <<>>, num_sources |-> 0 ]

\* the runs of query(question, top_k, filters) in the current state, each
\* with the calls it made and what it returned; top_k = 0 stands for None.
\* Every exception is re-raised ("except Exception: raise").
QueryRuns(question, top_k, filters) ==
    LET limit == IF top_k = 0 THEN top_k_results ELSE top_k
        query_vector == get_embedding(question)
        call == [ op |-> "query", question |-> question, top_k |-> top_k,
                  filters |-> filters ]
        Raised(searches, results, gens) ==
            call @@ [ raised |-> TRUE, embed_calls |-> 1, search_calls |-> searches,
                      results |-> results, prompt |-> <<>>, gen_calls |-> gens,
                      response |-> NoResponse ]
    IN  UNION { IF ~embedded THEN { Raised(0, <<>>, 0) }
        ELSE IF search_raises(store, query_vector, filters) THEN { Raised(1, <<>>, 0) }
        ELSE { IF ~Grounded(results)
               THEN call @@
                    [ raised |-> FALSE, embed_calls |-> 1, search_calls |-> 1,
                      results   |-> results,
                      prompt    |-> <<>>,
                      gen_calls |-> 0,
                      response  |-> [ answer      |-> NoGroundingAnswer,
                                      sources     |-> <<>>,
                                      num_sources |-> 0 ] ]
               ELSE IF GenerationRaises THEN Raised(1, results, 1)
               ELSE call @@
                    [ raised |-> FALSE, embed_calls |-> 1, search_calls |-> 1,
                      results   |-> results,
                      prompt    |-> ContextParts(ContextDocs(results)),
                      gen_calls |-> 1,
                      response  |-> [ answer      |-> GeneratedAnswer,
                                      sources     |-> Sources(results),
                                      num_sources |-> Len(Sources(results)) ] ] :
               results \in search(store, query_vector, limit, filters,
                                  similarity_threshold) } :
          embedded \in EmbeddingOutcomes(question) }

\* query(question, top_k, filters)
query(question, top_k, filters) ==
    /\ \E run \in QueryRuns(question, top_k, filters) : last' = run
    /\ UNCHANGED <<store, clock, settings, faults, process>>

\* "latest = results[0]"
Latest(head) == head.first

\* get_etf_summary(etf_code): a search with the dummy vector, limit=10 and
\* min_certainty=0.0; None ("not found") when the list is empty, and also
\* when search raised ("except Exception: logger.error(...); return None")
get_etf_summary(etf_code) ==
    LET filters == { <<"etf_code", etf_code>> }
        heads   == SearchHeads(store, dummy_vector, SummaryLimit, filters,
                               SummaryMinCertainty)
        call    == [ op |-> "summary", etf_code |-> etf_code, raised |-> FALSE ]
    IN  /\ IF search_raises(store, dummy_vector, filters)
           THEN last' = call @@ [ found |-> FALSE, logged_error |-> TRUE ]
           ELSE IF heads = {}
           THEN last' = call @@ [ found |-> FALSE, logged_error |-> FALSE ]
           ELSE \E head \in heads :
                  LET latest   == Latest(head)
                      metadata == latest.metadata
                  IN  last' = call @@
                        [ found |-> TRUE, logged_error |-> FALSE,
                          summary |->
                            [ etf_code        |-> etf_code,
                              etf_name        |-> metadata.etf_name,
                              etf_type        |-> metadata.etf_type,
                              category        |-> metadata.category,
                              source          |-> metadata.source,
                              last_updated    |-> metadata.date,
                              content_preview |->
                                  Slice(latest.content, SummaryPreviewBlocks) \o <<"...">>,
                              num_versions    |-> head.count ] ]
        /\ UNCHANGED <<store, clock, settings, faults, process>>

-----------------------------------------------------------------------------
(* Specification *)

-----------------------------------------------------------------------------
(* The process around the store: threads, shared handlers, the scheduler *)

\* the request threads of a server: grpc.server(ThreadPoolExecutor(...)) runs
\* each RPC in a worker thread, and FastAPI runs background tasks beside
\* requests; two of them are enough to interleave two calls
Threads == { "t1", "t2" }

\* a thread that has not yet called the handler
IdleThread == [ pc |-> "idle", op |-> "none", etf_code |-> "" ]

\* the module globals of main.py (vector_handler = None, rag_handler = None)
\* or the fields of a new ETFQueryServicer: no store connection, no RAG handler;
\* connections counts the WeaviateHandler objects created
NoHandlers ==
    [ vector_handler |-> 0, rag_handler |-> [ model_type |-> "None", vector_handler |-> 0 ],
      connections |-> 0 ]

\* ETFScheduler.__init__: no components yet; runs counts the scheduled runs
\* fired, metadata_writes the times the metadata file was rewritten
NewScheduler ==
    [ started |-> FALSE, vector_handler |-> FALSE, collector |-> FALSE,
      runs |-> 0, errors |-> 0, metadata |-> 0 ]

\* no call in progress, no handler built, a scheduler just constructed
InitProcess ==
    /\ threads = [ t \in Threads |-> IdleThread ]
    /\ handlers = [ server \in { "rest", "rpc" } |-> NoHandlers ]
    /\ scheduler = NewScheduler

\* an empty collection; ENABLE_DUPLICATE_CHECK and KEEP_HISTORY as the
\* environment sets them, LLM_PROVIDER at its default
Init ==
    /\ store = {}
    /\ clock = 0
    /\ settings \in [ enable_duplicate_check : BOOLEAN, keep_history : BOOLEAN,
                       llm_provider : { "openai" } ]
    /\ last = [ op |-> "init" ]
    /\ faults = {}
    /\ InitProcess

Submit ==
    \E cand \in Candidates, content \in Bodies, check_duplicate \in BOOLEAN :
        insert_document(cand, content, get_embedding(content), check_duplicate)

Prune ==
    \E etf_code \in Codes, keep_versions \in 0..MaxKeep :
        delete_old_versions(etf_code, keep_versions)

Next == Submit \/ Prune

Spec == Init /\ [][Next]_vars

\* an item of formatted_data as the collectors make it: all keys present
Formatted(cand, content) ==
    [ cand |-> cand, content |-> content, missing |-> {} ]

\* ETFDataCollector._insert_to_vector_db, for one item of data_list:
\* data["content"], its embedding, then insert_document with data["etf_code"]
\* and check_duplicate=True; an exception of any of them (a KeyError for a
\* missing key too) is logged and the loop goes on to the next item
_insert_to_vector_db(data) ==
    LET failed == [ op |-> "collect", etf_code |-> data.cand.etf_code,
                    content |-> data.content, missing |-> data.missing,
                    status |-> "failed" ]
    IN  IF "content" \in data.missing
        THEN /\ last' = failed
             /\ UNCHANGED <<store, clock, settings, faults, process>>
        ELSE \E embedded \in EmbeddingOutcomes(data.content) :
               IF ~embedded \/ "etf_code" \in data.missing
               THEN /\ last' = failed
                    /\ UNCHANGED <<store, clock, settings, faults, process>>
               ELSE insert_document(data.cand, data.content,
                                    get_embedding(data.content), TRUE)

Collect ==
    \E cand \in Candidates, content \in Bodies :
        _insert_to_vector_db(Formatted(cand, content))

Answer ==
    \E question \in Questions, top_k \in TopKChoices, filters \in FilterChoices :
        query(question, top_k, filters)

Summarize ==
    \E etf_code \in Codes : get_etf_summary(etf_code)

NextRetrieval == Collect \/ Answer \/ Summarize

\* the Settings defaults: ENABLE_DUPLICATE_CHECK and KEEP_HISTORY are True;
\* LLM_PROVIDER as the environment sets it
InitDefaults ==
    /\ store = {}
    /\ clock = 0
    /\ settings \in [ enable_duplicate_check : { TRUE }, keep_history : { TRUE },
                       llm_provider : ModelTypes ]
    /\ last = [ op |-> "init" ]
    /\ faults = {}
    /\ InitProcess

SpecRetrieval == InitDefaults /\ [][NextRetrieval]_vars

-----------------------------------------------------------------------------
(* Specifications of the four operations together *)

\* what the environment can make fail: nothing, or one of the calls
FaultChoices == { {} } \cup { { point } : point \in FaultPoints }

\* the store or the provider starts or stops failing
Disturb ==
    /\ \E choice \in FaultChoices : faults' = choice
    /\ last' = [ op |-> "disturb" ]
    /\ UNCHANGED <<store, clock, settings, process>>

\* query(question) with the defaults of its other arguments: top_k=None,
\* filters=None
Ask ==
    \E question \in Questions : query(question, 0, {})

\* the four operations
NextOperations == Collect \/ Prune \/ Ask \/ Summarize

SpecOperations == InitDefaults /\ [][NextOperations]_vars

\* the four operations, with a store and a provider that can fail
NextFaults == Disturb \/ NextOperations

SpecFaults == InitDefaults /\ [][NextFaults]_vars

-----------------------------------------------------------------------------
(* Properties of the store policy, checked under Spec *)

\* the stored documents of one identifier
VersionsOf(S, etf_code) == { d \in S : d.etf_code = etf_code }

\* the highest version stored for an identifier, 0 when there is none
MaxVersion(S, etf_code) ==
    IF VersionsOf(S, etf_code) = {} THEN 0
    ELSE CHOOSE m \in { d.version : d \in VersionsOf(S, etf_code) } :
            \A d \in VersionsOf(S, etf_code) : d.version <= m

\* no two stored documents share identifier and fingerprint
UniqueFingerprints(S) ==
    \A d1, d2 \in S :
        (d1.etf_code = d2.etf_code /\ d1.content_hash = d2.content_hash) => d1 = d2

\* the call just made was a submit with duplicate-checking enabled
CheckedSubmit(call) ==
    call.op = "insert" /\ call.check_duplicate /\ settings.enable_duplicate_check

\* C1: with duplicate-checking enabled, a submit whose identifier and body
\* are those of a stored document is skipped, and the store and its document
\* count are the same after the call as before it.
C1_DuplicateSubmitSkipped ==
    [][ ( /\ CheckedSubmit(last')
          /\ \E d \in store : d.etf_code = last'.etf_code /\ d.content = last'.content )
        => ( /\ last'.status = "skipped"
             /\ store' = store
             /\ Cardinality(store') = Cardinality(store) ) ]_vars

C1_Witness ==
    /\ CheckedSubmit(last)
    /\ last.status = "skipped"
    /\ \E d \in store : d.etf_code = last.etf_code /\ d.content = last.content

\* C2: uniqueness of (identifier, fingerprint) is kept by every submit made
\* with duplicate-checking enabled and by every prune; the empty store has
\* it, so it holds in every state reached by such calls.
C2_UniqueFingerprintsKept ==
    [][ ( /\ UniqueFingerprints(store)
          /\ last'.op = "insert" => CheckedSubmit(last') )
        => UniqueFingerprints(store') ]_vars

C2_Witness ==
    /\ CheckedSubmit(last)
    /\ last.status = "inserted"
    /\ UniqueFingerprints(store)
    /\ \E d1, d2 \in store :
          /\ d1.etf_code = d2.etf_code /\ d1.content_hash # d2.content_hash
    /\ \E d1, d2 \in store :
          /\ d1.etf_code # d2.etf_code /\ d1.content_hash = d2.content_hash

\* C3: with history retention enabled, every successful submit assigns
\* version = 1 + the highest version stored for the identifier (1 when none
\* is stored).
C3_VersionIsMaxPlusOne ==
    [][ ( last'.op = "insert" /\ last'.status = "inserted" /\ settings.keep_history )
        => last'.version = 1 + MaxVersion(store, last'.etf_code) ]_vars

\* nothing was deleted so far: every write is still stored
NothingPruned == Cardinality(store) = clock

\* C4: with history retention enabled, documents of one identifier with
\* pairwise distinct bodies, submitted one after the other, carry versions
\* 1, 2, 3, ... in submission order.
C4_VersionsCountSubmissions ==
    ( /\ settings.keep_history
      /\ NothingPruned
      /\ \A d1, d2 \in store :
            (d1.etf_code = d2.etf_code /\ d1.content = d2.content) => d1 = d2 )
    => \A d \in store :
          d.version = Cardinality({ e \in VersionsOf(store, d.etf_code) : e.date <= d.date })

-----------------------------------------------------------------------------
(* Properties of the retrieval policy, checked under SpecRetrieval *)

\* the similarity of a stored document to a question
Score(question, d) == Certainty(get_embedding(question), d.vector)

\* the stored documents that match all filters of a call
Candidate(call) == { d \in store : \A kv \in call.filters : d[kv[1]] = kv[2] }

\* those of them that meet the similarity threshold
Qualifying(call) ==
    { d \in Candidate(call) : Score(call.question, d) >= similarity_threshold }

\* the cap of a call: top_k, or settings.top_k_results when none is given
Cap(call) == IF call.top_k = 0 THEN top_k_results ELSE call.top_k

\* the documents of Candidate(call) that are nearer to the question than d
Nearer(call, d) ==
    { e \in Candidate(call) : Score(call.question, e) > Score(call.question, d) }

\* those that are at least as near as d, d apart
NotFarther(call, d) ==
    { e \in Candidate(call) : e # d /\ Score(call.question, e) >= Score(call.question, d) }

\* the stored document a search result was made from
DocOf(result) == CHOOSE d \in store : d.uuid = result.uuid

\* C7: when no stored document matches the filters and meets the similarity
\* threshold, query returns the fixed no-grounding answer, no sources and
\* num_sources = 0, and makes no call of the generation provider.
C7_NoGroundingNoGeneration ==
    ( last.op = "query" /\ Qualifying(last) = {} )
    => ( /\ last.response.answer = NoGroundingAnswer
         /\ last.response.sources = <<>>
         /\ last.response.num_sources = 0
         /\ last.gen_calls = 0
         /\ last.prompt = <<>> )

C7_Witness ==
    /\ last.op = "query"
    /\ Qualifying(last) = {}
    /\ Candidate(last) # {}
    /\ last.response.answer = NoGroundingAnswer
    /\ last.gen_calls = 0

C8_WitnessBelowCap ==
    /\ last.op = "query"
    /\ Len(last.results) > 0
    /\ Len(last.results) < Cap(last)
    /\ Cardinality(Candidate(last)) > Len(last.results)

\* C9: in a grounded answer the citations follow the order of the search
\* results (by descending similarity), carry ranks 1..n, num_sources = n,
\* and the citation of rank i is of the same document as the i-th numbered
\* section of the context given to the generation provider.
C9_CitationsFollowContext ==
    ( last.op = "query" /\ last.gen_calls > 0 ) =>
        LET sources == last.response.sources
            n       == Len(last.results)
        IN  /\ n > 0
            /\ last.gen_calls = 1
            /\ last.response.num_sources = n
            /\ Len(sources) = n
            /\ Len(last.prompt) = n
            /\ \A i \in 1..n :
                  LET d == DocOf(last.results[i])
                  IN  /\ sources[i].rank = i
                      /\ last.prompt[i].number = sources[i].rank
                      /\ sources[i].etf_code = d.etf_code
                      /\ sources[i].etf_name = d.etf_name
                      /\ sources[i].date = d.date
                      /\ sources[i].source = d.source
                      /\ sources[i].preview =
                            Slice(d.content, QueryPreviewBlocks) \o <<"...">>
                      /\ last.prompt[i].content = d.content
                      /\ last.prompt[i].etf_name = d.etf_name
                      /\ last.prompt[i].date = d.date
                      /\ last.prompt[i].source = d.source
            /\ \A i, j \in 1..n : i < j => sources[i].relevance >= sources[j].relevance

C9_Witness ==
    /\ last.op = "query"
    /\ last.gen_calls = 1
    /\ last.response.num_sources >= 2
    /\ last.response.sources[1].relevance > last.response.sources[2].relevance
    /\ Len(last.results[1].content) > QueryPreviewBlocks
    /\ Len(last.response.sources[1].preview) = QueryPreviewBlocks + 1

\* C10: summarize(identifier) returns the attributes and the body preview of
\* the stored document with the highest version of that identifier.
C10_SummaryOfHighestVersion ==
    ( last.op = "summary" /\ last.found ) =>
        \E d \in VersionsOf(store, last.etf_code) :
            /\ d.version = MaxVersion(store, last.etf_code)
            /\ last.summary.etf_name = d.etf_name
            /\ last.summary.etf_type = d.etf_type
            /\ last.summary.category = d.category
            /\ last.summary.source = d.source
            /\ last.summary.last_updated = d.date
            /\ last.summary.content_preview =
                  Slice(d.content, SummaryPreviewBlocks) \o <<"...">>

\* SearchHeads gives what the lists of search give to a caller that reads
\* their first entry and their length; checked under SpecRetrieval for the
\* search of get_etf_summary and for the searches of query
SearchHeadsAgree ==
    /\ \A etf_code \in Codes :
          LET filters == { <<"etf_code", etf_code>> }
              lists == search(store, dummy_vector, SummaryLimit, filters,
                              SummaryMinCertainty)
          IN  SearchHeads(store, dummy_vector, SummaryLimit, filters,
                          SummaryMinCertainty)
                = { [ first |-> r[1], count |-> Len(r) ] : r \in lists \ { <<>> } }
    /\ \A question \in Questions, top_k \in 1..2, filters \in FilterChoices :
          LET lists == search(store, get_embedding(question), top_k, filters,
                              similarity_threshold)
          IN  SearchHeads(store, get_embedding(question), top_k, filters,
                          similarity_threshold)
                = { [ first |-> r[1], count |-> Len(r) ] : r \in lists \ { <<>> } }

-----------------------------------------------------------------------------
(* A long history of one identifier, checked under SpecHistory *)

\* the longest history of one identifier
MaxHistory == 11

\* the body collected on day i
HistoryBody(i) == [ j \in 1..i |-> "A" ]

\* the collection after n daily collections of cand, the body having
\* changed every day: n objects, written one after the other
History(cand, n) ==
    { NewObject(cand, HistoryBody(i), get_embedding(HistoryBody(i)), i, i) :
        i \in 1..n }

InitHistory ==
    /\ settings \in [ enable_duplicate_check : { TRUE }, keep_history : { TRUE },
                       llm_provider : ModelTypes ]
    /\ \E cand \in Candidates, n \in 0..MaxHistory :
          /\ store = History(cand, n)
          /\ clock = n
    /\ last = [ op |-> "init" ]
    /\ faults = {}
    /\ InitProcess

NextHistory == Summarize

SpecHistory == InitHistory /\ [][NextHistory]_vars

\* C11: summarize fetches every stored version of the identifier, whatever
\* its similarity: num_versions is the number of documents stored for the
\* identifier, also when more than 10 are stored.
C11_SummaryCountsAllVersions ==
    ( last.op = "summary" /\ last.found )
    => last.summary.num_versions = Cardinality(VersionsOf(store, last.etf_code))

-----------------------------------------------------------------------------
(* Round trip of a document, checked under SpecRetrieval *)

\* p is a prefix of s
IsPrefix(p, s) == Len(p) <= Len(s) /\ SubSeq(s, 1, Len(p)) = p

\* C12: for a document submitted to an identifier that had no document, a
\* following summarize of the identifier returns the display name and the
\* origin that were submitted, and a body preview that is a prefix of the
\* submitted body.
C12_SummaryRoundTrip ==
    \A d \in store :
        ( last.op = "summary" /\ VersionsOf(store, last.etf_code) = { d } )
        => ( /\ last.found
             /\ last.summary.etf_name = d.etf_name
             /\ last.summary.source = d.source
             /\ last.summary.etf_type = d.etf_type
             /\ IsPrefix(last.summary.content_preview, d.content) )

-----------------------------------------------------------------------------
(* Frame of submit, checked under Spec *)

\* C13: a submit that succeeds writes exactly one document, that of the
\* call; a submit skipped as a duplicate writes none; no submit writes more
\* than one document, and none deletes or rewrites a stored document.
C13_SubmitWritesAtMostOne ==
    [][ last'.op = "insert" =>
          /\ last'.status = "inserted" =>
                \E d \in store' \ store :
                    /\ store' = store \cup { d }
                    /\ d.uuid = last'.uuid
                    /\ d.etf_code = last'.etf_code
                    /\ d.content = last'.content
          /\ last'.status = "skipped" => store' = store
          /\ store \subseteq store'
          /\ Cardinality(store') <= Cardinality(store) + 1 ]_vars

\* a successful submit to an identifier that has documents, and to a store
\* that has documents of another identifier
C13_Witness ==
    /\ last.op = "insert"
    /\ last.status = "inserted"
    /\ \E d \in store : d.etf_code = last.etf_code /\ d.uuid # last.uuid
    /\ \E d \in store : d.etf_code # last.etf_code

-----------------------------------------------------------------------------
(* Immutability of stored documents, checked under SpecOperations *)

\* C14: query and get_etf_summary leave the store as it is; over any
\* sequence of submit, prune, answer and summarize the fields of a stored
\* document are the same from its insertion to its deletion, and only prune
\* removes documents.
C14_StoredDocumentsImmutable ==
    [][ /\ last'.op \in { "query", "summary" } => store' = store
        /\ \A d \in store, e \in store' : d.uuid = e.uuid => d = e
        /\ last'.op # "prune" => store \subseteq store' ]_vars

\* a read of a store that holds documents and from which prune has removed
\* some
C14_Witness ==
    /\ last.op \in { "query", "summary" }
    /\ Cardinality(store) >= 2
    /\ clock > Cardinality(store)

-----------------------------------------------------------------------------
(* Failures of the store and of the provider, checked under SpecFaults *)

\* a call of the store that the submit just made has failed: the duplicate
\* lookup, or, for a body that is not stored, the version lookup or the write
SubmitCallFailed(call) ==
    \/ "fetch_duplicate" \in faults
    \/ /\ faults \cap { "fetch_latest", "data_insert" } # {}
       /\ ~ \E d \in store : d.etf_code = call.etf_code /\ d.content = call.content

\* C15: when the duplicate lookup, the version lookup or the write of a
\* submit fails, the submit reports a failure and writes no document: a
\* failed duplicate lookup does not count as "not a duplicate", a failed
\* version lookup does not count as "no version stored".
C15_StoreFailureFailsSubmit ==
    [][ ( last'.op = "insert" /\ SubmitCallFailed(last') )
        => ( last'.status = "raised" /\ store' = store ) ]_vars

\* C16: a failure of the store during summarize or prune comes out as a
\* failure: summarize reports "not found" only when no version of the
\* identifier is stored, and prune does not return normally after a failed
\* fetch or delete.
C16_StoreFailureFailsSummarizeAndPrune ==
    /\ ( last.op = "summary" /\ ~last.found )
          => VersionsOf(store, last.etf_code) = {}
    /\ ( last.op = "summary" /\ "near_vector" \in faults ) => last.raised
    /\ ( last.op = "prune" /\ last.logged_error ) => last.raised

\* C19: a failure of the embedding provider or of the generation provider
\* during query comes out as a failure, with either provider; query returns
\* no answer made by a fallback when the generation failed.
C19_ProviderFailureFailsAnswer ==
    ( /\ last.op = "query"
      /\ \/ "get_embedding" \in faults
         \/ "generate" \in faults /\ last.gen_calls > 0 )
    => ( last.raised /\ last.response = NoResponse )

-----------------------------------------------------------------------------
(* The service: collection of any item, and the two entry points of the   *)
(* question-answering path (app/main.py, app/connect_rpc.py)               *)

\* timeout=28.0 of asyncio.wait_for in query_etf, in seconds
QueryDeadline == 28

\* Field(5, ...) of QuestionRequest.top_k
RestTopKDefault == 5

\* a candidate with an empty etf_code
EmptyCodeCandidate ==
    [ etf_code |-> "", etf_name |-> "SPDR S&P 500", source |-> "yfinance",
      etf_type |-> "foreign", category |-> "" ]

\* items handed to the collector's insertion loop: well-formed ones, and
\* ones with an empty or missing etf_code, or an empty or missing content
Items ==
    [ cand    : { c \in Candidates : c.etf_type = "domestic" }
                  \cup { EmptyCodeCandidate },
      content : { <<"A">>, <<>> },
      missing : { {}, { "etf_code" }, { "content" } } ]

\* requests to the entry points: question (possibly empty), top_k (0 when
\* the client gives none), etf_type ("" when the client gives none)
Requests ==
    [ question : { <<"A">>, <<>> },
      top_k    : TopKChoices,
      etf_type : { "", "domestic" } ]

\* seconds the embedding, the search and the generation of one query take
\* together: below and above the deadline
Elapsed == { 1, 30 }

\* "if request.etf_type: filters["etf_type"] = request.etf_type"
RequestFilters(request) ==
    IF request.etf_type # "" THEN { <<"etf_type", request.etf_type>> } ELSE {}

\* POST /api/query: handler.query in a thread, awaited for at most 28
\* seconds.  504 when the wait times out, 500 when query raised, else the
\* response of query.
query_etf(request, elapsed) ==
    LET top_k == IF request.top_k = 0 THEN RestTopKDefault ELSE request.top_k
    IN  /\ \E run \in QueryRuns(request.question, top_k, RequestFilters(request)) :
             last' = [ op      |-> "query_etf",
                       request |-> request,
                       elapsed |-> elapsed,
                       waited  |-> Min(elapsed, QueryDeadline),
                       outcome |-> IF elapsed > QueryDeadline THEN "504 timeout"
                                   ELSE IF run.raised THEN "500 error"
                                   ELSE "200 ok",
                       run     |-> run ]
        /\ UNCHANGED <<store, clock, settings, faults, process>>

\* ETFQueryServicer.AskQuestion: rag_handler.query called directly, with
\* top_k=None unless request.top_k > 0.  INTERNAL when query raised, else
\* the response of query, when query returns.
AskQuestion(request, elapsed) ==
    /\ \E run \in QueryRuns(request.question, request.top_k,
                            RequestFilters(request)) :
         last' = [ op      |-> "AskQuestion",
                   request |-> request,
                   elapsed |-> elapsed,
                   waited  |-> elapsed,
                   outcome |-> IF run.raised THEN "INTERNAL" ELSE "OK",
                   run     |-> run ]
    /\ UNCHANGED <<store, clock, settings, faults, process>>

CollectItem == \E data \in Items : _insert_to_vector_db(data)

RestQuery == \E request \in Requests, elapsed \in Elapsed : query_etf(request, elapsed)

RpcQuery == \E request \in Requests, elapsed \in Elapsed : AskQuestion(request, elapsed)

NextService == CollectItem \/ RestQuery \/ RpcQuery

SpecService == InitDefaults /\ [][NextService]_vars

\* the call just made was a submit of an item without identifier or body
Malformed(call) ==
    /\ call.op \in { "insert", "collect" }
    /\ \/ call.etf_code = ""
       \/ call.content = <<>>
       \/ call.op = "collect" /\ call.missing # {}

\* C17: a candidate whose identifier or body is missing or empty is rejected
\* by submit before any call of the store.
C17_MalformedCandidateRejected ==
    [][ Malformed(last') =>
          ( last'.op = "collect" /\ last'.status = "failed" /\ store' = store ) ]_vars

\* C18: a question-answering request with an empty question is rejected as
\* a validation failure before any call of the embedding provider, of the
\* store or of the generation provider.
C18_EmptyQuestionRejected ==
    ( last.op \in { "query_etf", "AskQuestion" } /\ last.request.question = <<>> )
    => ( /\ last.outcome = "422 validation"
         /\ last.run.embed_calls = 0
         /\ last.run.search_calls = 0
         /\ last.run.gen_calls = 0 )

\* C20: every call of the question-answering path, by REST and by RPC, is
\* bounded by one deadline over the whole of embedding, search and
\* generation: the caller never waits longer, and gets a timeout outcome,
\* distinct from the other failures, exactly when the deadline has passed.
C20_AnsweringBoundedByDeadline ==
    last.op \in { "query_etf", "AskQuestion" }
    => ( /\ last.waited <= QueryDeadline
         /\ last.elapsed > QueryDeadline <=> last.outcome = "504 timeout" )

-----------------------------------------------------------------------------
(* Concurrent calls of the store handler                                   *)
(*                                                                         *)
(* insert_document and delete_old_versions hold no lock, and each of       *)
(* their calls to the store is a separate request to Weaviate.  A thread   *)
(* therefore takes one step per store request; between two steps of a      *)
(* thread the other thread may take any of its own.  A thread that has     *)
(* returned keeps the record of its last call until it makes the next.     *)

\* the bodies submitted by concurrent collection runs
ConcurrentBodies == { <<"A">>, <<"B">> }

\* what two concurrent runs of collect_domestic_etfs submit documents for
ConcurrentCandidates == { cand \in Candidates : cand.etf_type = "domestic" }

\* the threads that have passed the duplicate check and have not written yet
Writing == { t \in Threads : threads[t].pc \in { "version", "write" } }

\* a delete request that the store ignores
delete_by_id_ignored(S, uuid) == S

\* collection.data.delete_by_id(uuid): the object of that uuid, if it is
\* still stored, is removed
delete_by_id(S, uuid) == { obj \in S : obj.uuid # uuid }

\* the uuids of a list of fetched objects
Uuids(objects) == [ i \in 1..Len(objects) |-> objects[i].uuid ]

\* insert_document as the collector calls it (check_duplicate=True), up to
\* the return of _check_duplicate: the duplicate lookup is the first request
SubmitCheck(t) ==
    \E cand \in ConcurrentCandidates, content \in ConcurrentBodies :
        LET call == [ op |-> "insert", etf_code |-> cand.etf_code, cand |-> cand,
                      content |-> content, version |-> 0, read_at |-> clock,
                      uuid |-> 0, overlapped |-> {} ]
        IN  /\ threads[t].pc = "idle"
            /\ clock + Cardinality(Writing) < MaxInserts
            /\ IF settings.enable_duplicate_check
                  /\ _check_duplicate(store, cand.etf_code,
                                      _compute_content_hash(content))
               THEN threads' = [ threads EXCEPT ![t] =
                                   call @@ [ pc |-> "idle", status |-> "skipped" ] ]
               ELSE threads' = [ threads EXCEPT ![t] =
                                   call @@ [ pc |-> "version", status |-> "running" ] ]
            /\ UNCHANGED <<store, clock, settings, last, faults, handlers, scheduler>>

\* "version = self._get_latest_version(etf_code) + 1": the second request;
\* read_at is the number of documents written when the version was read
SubmitVersion(t) ==
    /\ threads[t].pc = "version"
    /\ \E version \in next_version(store, threads[t].etf_code) :
          threads' = [ threads EXCEPT ![t].pc = "write", ![t].version = version,
                                      ![t].read_at = clock ]
    /\ UNCHANGED <<store, clock, settings, last, faults, handlers, scheduler>>

\* "uuid = collection.data.insert(...)": the third request writes the
\* document with the version worked out before, and the call returns;
\* overlapped records the threads that were inside the delete loop of
\* delete_old_versions when the document was written
SubmitWrite(t) ==
    LET self == threads[t]
        now  == clock + 1
    IN  /\ self.pc = "write"
        /\ store' = data_insert(store, NewObject(self.cand, self.content,
                                   get_embedding(self.content), self.version, now))
        /\ clock' = now
        /\ threads' = [ threads EXCEPT
                          ![t].pc = "idle", ![t].status = "inserted", ![t].uuid = now,
                          ![t].overlapped = { u \in Threads : threads[u].pc = "delete" } ]
        /\ UNCHANGED <<settings, last, faults, handlers, scheduler>>

\* delete_old_versions up to the start of its loop: one fetch of the
\* identifier's objects; kept and to_delete are versions[:keep_versions] and
\* versions[keep_versions:] of that read
PruneFetch(t) ==
    \E cand \in ConcurrentCandidates, keep_versions \in 0..MaxKeep :
        LET etf_code == cand.etf_code
            call == [ op |-> "prune", etf_code |-> etf_code,
                      keep_versions |-> keep_versions, read_at |-> clock,
                      deleted |-> {} ]
        IN  /\ threads[t].pc = "idle"
            /\ \E results \in fetch_objects(store, { <<"etf_code", etf_code>> }, 0) :
                  IF Len(results) <= keep_versions
                  THEN threads' = [ threads EXCEPT ![t] =
                                      call @@ [ pc |-> "idle", status |-> "returned",
                                                kept |-> {}, to_delete |-> <<>> ] ]
                  ELSE LET versions == Uuids(SortedByVersionDesc(results))
                       IN  threads' = [ threads EXCEPT ![t] =
                             call @@ [ pc |-> "delete", status |-> "running",
                                       kept |-> { versions[i] : i \in 1..keep_versions },
                                       to_delete |-> SubSeq(versions, keep_versions + 1,
                                                            Len(versions)) ] ]
            /\ UNCHANGED <<store, clock, settings, last, faults, handlers, scheduler>>

\* one turn of "for obj in versions[keep_versions:]:
\* collection.data.delete_by_id(obj.uuid)"; the call returns after the last
PruneDelete(t) ==
    LET self == threads[t]
        uuid == Head(self.to_delete)
        rest == SubSeq(self.to_delete, 2, Len(self.to_delete))
    IN  /\ self.pc = "delete"
        /\ store' = delete_by_id(store, uuid)
        /\ threads' = [ threads EXCEPT
                          ![t].to_delete = rest,
                          ![t].deleted = self.deleted \cup { uuid },
                          ![t].pc = IF rest = <<>> THEN "idle" ELSE "delete",
                          ![t].status = IF rest = <<>> THEN "returned" ELSE "running" ]
        /\ UNCHANGED <<clock, settings, last, faults, handlers, scheduler>>

\* the steps of thread t
Step(t) ==
    \/ SubmitCheck(t)
    \/ SubmitVersion(t)
    \/ SubmitWrite(t)
    \/ PruneFetch(t)
    \/ PruneDelete(t)

NextConcurrent == \E t \in Threads : Step(t)

\* an empty collection, the Settings defaults, no call in progress
InitConcurrent ==
    /\ store = {}
    /\ clock = 0
    /\ settings = [ enable_duplicate_check |-> TRUE, keep_history |-> TRUE,
                    llm_provider |-> "openai" ]
    /\ last = [ op |-> "init" ]
    /\ faults = {}
    /\ InitProcess

SpecConcurrent == InitConcurrent /\ [][NextConcurrent]_vars

-----------------------------------------------------------------------------
(* Claims about concurrent calls *)

\* the stored document that thread t wrote, as a set (empty when it was
\* deleted since, or when t wrote nothing)
Written(t) ==
    IF threads[t].op = "insert" /\ threads[t].pc = "idle"
       /\ threads[t].status = "inserted"
    THEN { obj \in store : obj.uuid = threads[t].uuid }
    ELSE {}

\* C21: version assignment is an unlocked read-then-write.  Two submit
\* calls for one identifier that worked out the same version and both wrote
\* have stored two documents of that identifier with that same version:
\* nothing between a call's read of the latest version and its write
\* notices the other call's write.
C21_RacingSubmitsShareVersion ==
    \A t \in Threads : \A u \in Threads \ { t } :
        \A dt \in Written(t), du \in Written(u) :
            ( threads[t].etf_code = threads[u].etf_code
              /\ threads[t].version = threads[u].version )
            => ( dt # du /\ dt.etf_code = du.etf_code
                 /\ dt.version = du.version )

\* two calls with distinct bodies read the same maximum version (that of
\* the only document stored when they read), both succeeded, and their two
\* documents carry the same version
C21_Witness ==
    /\ settings.keep_history
    /\ \E t \in Threads : \E u \in Threads \ { t } :
        \E dt \in Written(t), du \in Written(u), d0 \in store :
            /\ threads[t].etf_code = threads[u].etf_code
            /\ threads[t].content # threads[u].content
            /\ d0.etf_code = threads[t].etf_code
            /\ threads[t].read_at = d0.uuid /\ threads[u].read_at = d0.uuid
            /\ threads[t].version = d0.version + 1
            /\ threads[u].version = d0.version + 1
            /\ dt.version = du.version /\ dt.version = d0.version + 1
            /\ dt # du

\* the stored documents of the identifier of thread t's call
StoredOf(t) == { obj \in store : obj.etf_code = threads[t].etf_code }

\* thread t has returned from delete_old_versions
Pruned(t) ==
    threads[t].op = "prune" /\ threads[t].pc = "idle"
    /\ threads[t].status = "returned"

\* C22: prune is not atomic across its read-then-delete sequence.  Once
\* prune(identifier, N) has returned, at most N of the documents that were
\* stored when it read the identifier are left; whatever is stored beyond N
\* was written after that read, by a submit the prune did not see.
C22_PruneBoundsOnlyWhatItRead ==
    \A t \in Threads :
        Pruned(t) =>
            Cardinality({ obj \in StoredOf(t) : obj.uuid <= threads[t].read_at })
                <= threads[t].keep_versions

\* prune(identifier, N) has deleted and returned, a submit for the same
\* identifier wrote while the prune was in its delete loop, and more than N
\* versions of the identifier are stored
C22_Witness ==
    \E t \in Threads : \E u \in Threads \ { t } :
        /\ Pruned(t) /\ threads[t].deleted # {}
        /\ Written(u) # {}
        /\ threads[u].etf_code = threads[t].etf_code
        /\ t \in threads[u].overlapped
        /\ threads[u].uuid > threads[t].read_at
        /\ Cardinality(StoredOf(t)) > threads[t].keep_versions

-----------------------------------------------------------------------------
(* Collection and retrieval while the embedding provider changes *)

\* the provider changes between two operations: the service is restarted
\* with another LLM_PROVIDER, or a request names another model_type and
\* get_rag_handler builds the handler for it
SwitchProvider ==
    /\ \E model_type \in ModelTypes \ { settings.llm_provider } :
          settings' = [ settings EXCEPT !.llm_provider = model_type ]
    /\ last' = [ op |-> "switch" ]
    /\ UNCHANGED <<store, clock, faults, process>>

NextProviders == SwitchProvider \/ Collect \/ Ask \/ Summarize

SpecProviders == InitDefaults /\ [][NextProviders]_vars

\* the lengths of the stored vectors
StoredDims(S) == { obj.vector.dim : obj \in S }

\* C23: in every reachable state all stored documents carry an embedding of
\* one single dimensionality and exactly one origin, whatever collection
\* runs and queries were made while the provider was switched between the
\* 1536-dimension and the 384-dimension one; and the query vector of every
\* answer and of every summarize has the dimensionality of the stored
\* documents.
C23_OneDimensionality ==
    [][ /\ Cardinality(StoredDims(store')) <= 1
        /\ \A obj \in store' : obj.source \in { cand.source : cand \in Candidates }
        /\ ( last'.op = "query" /\ last'.embed_calls > 0 )
              => StoredDims(store) \subseteq { get_embedding(last'.question).dim }
        /\ last'.op = "summary"
              => StoredDims(store) \subseteq { dummy_vector.dim } ]_vars

-----------------------------------------------------------------------------
(* Version numbering without history *)

\* C24: when history retention is disabled, every document written by
\* submit has version 1, whatever is already stored for its identifier.
C24_NoHistoryVersionOne ==
    [][ ( last'.op = "insert" /\ last'.status = "inserted"
          /\ ~ settings.keep_history )
        => /\ last'.version = 1
           /\ \A obj \in store' \ store : obj.version = 1 ]_vars

\* with history retention disabled, a submit has written a document of
\* version 1 for an identifier that already had a stored document
C24_Witness ==
    /\ ~ settings.keep_history
    /\ last.op = "insert" /\ last.status = "inserted" /\ last.version = 1
    /\ \E obj \in store :
          /\ obj.etf_code = last.etf_code /\ obj.uuid # last.uuid
          /\ obj.version = 1

-----------------------------------------------------------------------------
(* ETFDataCollector: the three sources and collect_all *)

\* the public methods that class WeaviateHandler defines
WeaviateHandlerMethods ==
    { "insert_document", "insert_documents_batch", "search",
      "delete_old_versions", "get_document_count", "close" }

\* self.vector_handler.<name>(...) raises AttributeError when the class
\* does not define <name>
AttributeMissing(name) == name \notin WeaviateHandlerMethods

\* a second listed domestic ETF and a disclosure, as NaverETFCrawler and
\* DARTCrawler format them
Inverse ==
    [ etf_code |-> "114800", etf_name |-> "KODEX INVERSE", source |-> "naver",
      etf_type |-> "domestic", category |-> "kr" ]

Disclosure ==
    [ etf_code |-> "20240101000001", etf_name |-> "SAMSUNG ASSET", source |-> "dart",
      etf_type |-> "domestic", category |-> "disclosure" ]

\* what a crawl of a source can give: an exception, or the list of the
\* items found
Crawls(source) ==
    LET found(listing) == [ raised |-> FALSE, etfs |-> listing ]
        failed == [ raised |-> TRUE, etfs |-> <<>> ]
        kodex == CHOOSE cand \in Candidates : cand.etf_type = "domestic"
        spy   == CHOOSE cand \in Candidates : cand.etf_type = "foreign"
    IN  IF source = "domestic"
        THEN { failed, found(<<>>), found(<<kodex>>), found(<<kodex, Inverse>>) }
        ELSE IF source = "foreign"
        THEN { failed, found(<<spy>>) }
        ELSE { failed, found(<<Disclosure>>) }

\* the collectors that are constructed: with or without a vector handler,
\* and with a model (every caller names a model_type)
Collectors == [ vector_handler : BOOLEAN, model : { TRUE } ]

\* one turn of the loop of _insert_to_vector_db on the collection st (its
\* objects and its count of writes): the collections it can leave.  An
\* exception of the embedding or of insert_document is logged and leaves
\* the collection as it was, and so does a duplicate.
InsertedOne(st, data) ==
    LET etf_code == data.cand.etf_code
        vector   == get_embedding(data.content)
        written  == { [ store |-> data_insert(st.store,
                                     NewObject(data.cand, data.content, vector,
                                               version, st.clock + 1)),
                        clock |-> st.clock + 1 ] :
                      version \in next_version(st.store, etf_code) }
    IN  UNION { IF ~embedded THEN { st }
                ELSE IF settings.enable_duplicate_check
                        /\ _check_duplicate(st.store, etf_code,
                                            _compute_content_hash(data.content))
                THEN { st }
                ELSE IF "data_insert" \in faults \/ VectorRejected(st.store, vector)
                THEN { st }
                ELSE written :
                embedded \in EmbeddingOutcomes(data.content) }

\* the whole loop "for data in formatted_data", from any of the collections
\* sts
RECURSIVE InsertedAll(_, _)
InsertedAll(sts, formatted_data) ==
    IF formatted_data = <<>> THEN sts
    ELSE InsertedAll(UNION { InsertedOne(st, formatted_data[1]) : st \in sts },
                     SubSeq(formatted_data, 2, Len(formatted_data)))

\* "formatted_etfs = [crawler.format_for_vector_db(etf) for etf in etfs]",
\* every item with the body of the day
RECURSIVE FormattedAll(_, _)
FormattedAll(etfs, content) ==
    IF etfs = <<>> THEN <<>>
    ELSE <<Formatted(etfs[1], content)>>
         \o FormattedAll(SubSeq(etfs, 2, Len(etfs)), content)

\* what a method of a source does after its crawl: format, insert when
\* asked and when the collector has a vector handler and a model, and
\* return the formatted list
Collected(collector, crawl, content, insert_to_db, st) ==
    LET formatted_etfs == FormattedAll(crawl.etfs, content)
    IN  IF crawl.raised
        THEN { [ raised |-> TRUE, result |-> <<>>,
                 store |-> st.store, clock |-> st.clock ] }
        ELSE IF insert_to_db /\ collector.vector_handler /\ collector.model
        THEN { [ raised |-> FALSE, result |-> formatted_etfs,
                 store |-> after.store, clock |-> after.clock ] :
               after \in InsertedAll({ st }, formatted_etfs) }
        ELSE { [ raised |-> FALSE, result |-> formatted_etfs,
                 store |-> st.store, clock |-> st.clock ] }

\* collect_domestic_etfs(max_items=None, insert_to_db, only_outdated,
\* days_threshold): with only_outdated and a vector handler it first calls
\* self.vector_handler.get_etf_codes_needing_update(days=days_threshold)
collect_domestic_etfs(collector, crawl, content, insert_to_db, only_outdated, st) ==
    IF only_outdated /\ collector.vector_handler
       /\ AttributeMissing("get_etf_codes_needing_update")
    THEN { [ raised |-> TRUE, result |-> <<>>, store |-> st.store, clock |-> st.clock ] }
    ELSE Collected(collector, crawl, content, insert_to_db, st)

\* collect_foreign_etfs(max_items=None, insert_to_db)
collect_foreign_etfs(collector, crawl, content, insert_to_db, st) ==
    Collected(collector, crawl, content, insert_to_db, st)

\* collect_dart_disclosures(days, max_items=None, insert_to_db)
collect_dart_disclosures(collector, crawl, content, insert_to_db, st) ==
    Collected(collector, crawl, content, insert_to_db, st)

\* the collection as a method of the collector finds it
Now == [ store |-> store, clock |-> clock ]

\* a direct call of collect_domestic_etfs, as trigger_collection, the
\* collection script and collect_all make it
CollectDomestic ==
    \E collector \in Collectors, content \in ConcurrentBodies,
       insert_to_db \in BOOLEAN, only_outdated \in BOOLEAN :
      \E crawl \in Crawls("domestic") :
        /\ clock + Len(crawl.etfs) <= MaxInserts
        /\ \E out \in collect_domestic_etfs(collector, crawl, content, insert_to_db,
                                            only_outdated, Now) :
              /\ store' = out.store
              /\ clock' = out.clock
              /\ last' = [ op |-> "collect_domestic_etfs", collector |-> collector,
                           crawled |-> crawl, content |-> content,
                           insert_to_db |-> insert_to_db,
                           only_outdated |-> only_outdated,
                           raised |-> out.raised, result |-> out.result ]
        /\ UNCHANGED <<settings, faults, process>>

\* an exception that leaves a try block of collect_all and reaches its
\* caller
Reraised(out) == out.raised

\* "except Exception as e: logger.error(...)": whether the exception of a
\* source leaves collect_all
Propagated(out) == FALSE

\* results as collect_all starts with it; attempted lists the sources whose
\* method was called, failed those whose method raised
NoResults ==
    [ domestic |-> <<>>, foreign |-> <<>>, dart |-> <<>>, total |-> 0,
      attempted |-> <<>>, failed |-> {}, raised |-> FALSE ]

\* one "try: results[source] = self.collect_...(...) except ..." block with
\* the outcome out of the method; nothing runs once an exception has left
\* collect_all
Tried(results, source, out) ==
    IF results.raised THEN results
    ELSE [ results EXCEPT
             ![source]   = IF out.raised THEN <<>> ELSE out.result,
             !.attempted = Append(@, source),
             !.failed    = IF out.raised THEN @ \cup { source } ELSE @,
             !.raised    = Propagated(out) ]

\* the collection after a block: what the method left, or what there was
\* when the method was not called
Left(results, out, st) ==
    IF results.raised THEN st ELSE [ store |-> out.store, clock |-> out.clock ]

\* results["total"] = len(domestic) + len(foreign) + len(dart)
Totalled(results) ==
    IF results.raised THEN results
    ELSE [ results EXCEPT !.total = Len(results.domestic) + Len(results.foreign)
                                    + Len(results.dart) ]

\* the returns of collect_all(insert_to_db, only_outdated), each with the
\* collection it leaves: the three blocks in their order
collect_all_runs(collector, domestic, foreign, dart, content, insert_to_db, only_outdated) ==
    UNION { LET r1 == Tried(NoResults, "domestic", d)
                s1 == Left(NoResults, d, Now)
            IN  UNION { LET r2 == Tried(r1, "foreign", f)
                            s2 == Left(r1, f, s1)
                        IN  { [ results |-> Totalled(Tried(r2, "dart", r)),
                                store   |-> Left(r2, r, s2).store,
                                clock   |-> Left(r2, r, s2).clock ] :
                              r \in collect_dart_disclosures(collector, dart, content,
                                                             insert_to_db, s2) } :
                        f \in collect_foreign_etfs(collector, foreign, content,
                                                   insert_to_db, s1) } :
            d \in collect_domestic_etfs(collector, domestic, content, insert_to_db,
                                        only_outdated, Now) }

\* a call of collect_all
collect_all(collector, domestic, foreign, dart, content, insert_to_db, only_outdated) ==
    \E run \in collect_all_runs(collector, domestic, foreign, dart, content,
                                insert_to_db, only_outdated) :
        /\ store' = run.store
        /\ clock' = run.clock
        /\ last' = run.results @@ [ op |-> "collect_all", collector |-> collector,
                                    only_outdated |-> only_outdated ]
        /\ UNCHANGED <<settings, faults, process>>

\* collect_all as the scheduler calls it (insert_to_db=True, only_outdated
\* as COLLECT_ONLY_OUTDATED sets it)
CollectAll ==
    \E collector \in Collectors, content \in ConcurrentBodies,
       insert_to_db \in { TRUE }, only_outdated \in BOOLEAN :
      \E domestic \in Crawls("domestic"), foreign \in Crawls("foreign"),
         dart \in Crawls("dart") :
        /\ clock + Len(domestic.etfs) + Len(foreign.etfs) + Len(dart.etfs)
              <= MaxInserts
        /\ collect_all(collector, domestic, foreign, dart, content, insert_to_db,
                       only_outdated)

NextCollector == CollectDomestic \/ CollectAll

SpecCollector == InitConcurrent /\ [][NextCollector]_vars

-----------------------------------------------------------------------------
(* Claims about the collector *)

\* the codes of S that no document has been stored for within the last
\* days_threshold writes
OutdatedCodes(S, now, days_threshold) ==
    { code \in { obj.etf_code : obj \in S } :
        \A obj \in S : obj.etf_code = code => now - obj.date >= days_threshold }

\* the items of a crawl whose code is in codes, in their order
RECURSIVE Filtered(_, _)
Filtered(etfs, codes) ==
    IF etfs = <<>> THEN <<>>
    ELSE ( IF etfs[1].cand.etf_code \in codes THEN <<etfs[1]>> ELSE <<>> )
         \o Filtered(SubSeq(etfs, 2, Len(etfs)), codes)

\* the default days_threshold of the calls
days_threshold == 7

\* C25: collect_domestic_etfs called with only_outdated=True and a vector
\* handler returns exactly those crawled ETFs whose code is in the store's
\* set of codes not updated within days_threshold days; with
\* only_outdated=False it returns all crawled ETFs.
C25_OnlyOutdatedFilters ==
    [][ ( last'.op = "collect_domestic_etfs" /\ ~ last'.crawled.raised )
        => /\ ~ last'.raised
           /\ IF last'.only_outdated /\ last'.collector.vector_handler
              THEN last'.result =
                     Filtered(FormattedAll(last'.crawled.etfs, last'.content),
                              OutdatedCodes(store, clock, days_threshold))
              ELSE last'.result = FormattedAll(last'.crawled.etfs, last'.content) ]_vars

\* C26: collect_all isolates the three sources.  It attempts domestic, then
\* foreign, then disclosure collection; a source that fails has an empty
\* result and the later sources still run; collect_all does not raise; and
\* the reported total is the sum of the three result-list lengths.
C26_SourcesIsolated ==
    last.op = "collect_all"
    => /\ ~ last.raised
       /\ last.attempted = <<"domestic", "foreign", "dart">>
       /\ \A source \in last.failed : last[source] = <<>>
       /\ last.total = Len(last.domestic) + Len(last.foreign) + Len(last.dart)

\* a collect_all whose domestic collection failed and whose foreign and
\* disclosure collections both returned an item
C26_Witness ==
    /\ last.op = "collect_all"
    /\ last.failed = { "domestic" }
    /\ Len(last.foreign) = 1 /\ Len(last.dart) = 1
    /\ last.total = 2
    /\ \E obj \in store : obj.source = "dart"

-----------------------------------------------------------------------------
(* Claims about concurrent submissions and prunes *)

\* C27: with duplicate-checking enabled, two concurrent submit calls with
\* the same identifier and the same body never both write: in every
\* interleaving the stored documents are unique by (identifier,
\* content_fingerprint).
C27_ConcurrentSubmitsStayUnique ==
    settings.enable_duplicate_check
    => \A o1 \in store, o2 \in store :
          ( o1.etf_code = o2.etf_code /\ o1.content_hash = o2.content_hash )
          => o1 = o2

\* the highest version stored for an identifier (0 when nothing is stored)
HighestVersion(S, etf_code) ==
    IF \E obj \in S : obj.etf_code = etf_code
    THEN CHOOSE v \in { obj.version : obj \in { o \in S : o.etf_code = etf_code } } :
            \A obj \in S : obj.etf_code = etf_code => obj.version <= v
    ELSE 0

\* one thread prunes while the other submits
Pruner == CHOOSE t \in Threads : TRUE

Submitter == CHOOSE t \in Threads : t # Pruner

NextPruning ==
    \/ PruneFetch(Pruner)
    \/ PruneDelete(Pruner)
    \/ SubmitCheck(Submitter)
    \/ SubmitVersion(Submitter)
    \/ SubmitWrite(Submitter)

\* the collection after some daily collections of the domestic source, the
\* Settings defaults, no call in progress
InitPruning ==
    /\ settings = [ enable_duplicate_check |-> TRUE, keep_history |-> TRUE,
                    llm_provider |-> "openai" ]
    /\ \E cand \in ConcurrentCandidates, n \in 0..MaxKeep :
          /\ store = History(cand, n)
          /\ clock = n
    /\ last = [ op |-> "init" ]
    /\ faults = {}
    /\ InitProcess

SpecPruning == InitPruning /\ [][NextPruning]_vars

\* C28: prune deletes only documents that were present in its own initial
\* read of the identifier.  In every interleaving with concurrent submit
\* calls, a document inserted after that read is not deleted by the running
\* prune, and with keep_count >= 1 no deletion lowers the highest version
\* stored for the identifier: a document of at least the deleted one's
\* version stays.
C28_PruneDeletesOnlyWhatItRead ==
    [][ ( threads[Pruner].pc = "delete" /\ threads'[Pruner] # threads[Pruner] )
        => /\ \A obj \in store \ store' :
                /\ obj.etf_code = threads[Pruner].etf_code
                /\ obj.uuid <= threads[Pruner].read_at
                /\ threads[Pruner].keep_versions >= 1
                     => \E left \in store' :
                           /\ left.etf_code = obj.etf_code
                           /\ left.version >= obj.version
           /\ threads[Pruner].keep_versions >= 1
                => HighestVersion(store', threads[Pruner].etf_code)
                     = HighestVersion(store, threads[Pruner].etf_code) ]_vars

\* a prune with keep_count >= 1 has deleted and returned; a submit wrote a
\* document of the identifier while the prune was in its delete loop, and
\* that document is still stored
C28_Witness ==
    /\ Pruned(Pruner) /\ threads[Pruner].deleted # {}
    /\ threads[Pruner].keep_versions >= 1
    /\ Written(Submitter) # {}
    /\ Pruner \in threads[Submitter].overlapped
    /\ threads[Submitter].etf_code = threads[Pruner].etf_code
    /\ threads[Submitter].uuid > threads[Pruner].read_at

-----------------------------------------------------------------------------
(* The shared handlers of the two servers *)

\* the model_type of a call: not given ("None"), one of the two providers,
\* or a name ModelFactory does not know
ModelChoices == ModelTypes \cup { "None", "gpt" }

\* "model_type and ...": None and the empty string name no model type
Named(model_type) == model_type # "None"

\* get_model(model_type): "raise ValueError" for an unknown type
get_model_raises(model_type) == model_type \notin ModelTypes

\* RAGQueryHandler(vector_handler, model_type).model_type:
\* "model_type or self.settings.llm_provider"
ResolvedModelType(model_type) ==
    IF Named(model_type) THEN model_type ELSE settings.llm_provider

\* a shared handler that is built once and never replaced
RebuildsWhenMissing(rag_handler, model_type) ==
    rag_handler.model_type = "None"

\* "rag_handler is None or (model_type and rag_handler.model_type !=
\* model_type)": whether the call builds a new RAG handler
Rebuilds(rag_handler, model_type) ==
    \/ rag_handler.model_type = "None"
    \/ Named(model_type) /\ rag_handler.model_type # model_type

\* get_rag_handler(model_type) of main.py and _ensure_rag_handler(model_type)
\* of the servicer, on the handlers of server; connects says whether
\* WeaviateHandler() succeeds if it is called.  The store connection is
\* created when there is none, then the RAG handler is built with it; an
\* exception of either leaves the shared RAG handler as it was.
EnsureRagHandler(op, server, model_type, connects) ==
    LET h    == handlers[server]
        call == [ op |-> op, server |-> server, model_type |-> model_type ]
        vh   == IF h.vector_handler = 0 THEN h.connections + 1 ELSE h.vector_handler
        connected == [ h EXCEPT !.vector_handler = vh,
                                !.connections = IF h.vector_handler = 0
                                                THEN @ + 1 ELSE @ ]
        built == [ model_type |-> ResolvedModelType(model_type),
                   vector_handler |-> vh ]
    IN  /\ IF ~ Rebuilds(h.rag_handler, model_type)
           THEN /\ last' = call @@ [ raised |-> FALSE, rebuilt |-> FALSE,
                                     returned |-> h.rag_handler ]
                /\ UNCHANGED handlers
           ELSE IF h.vector_handler = 0 /\ ~ connects
           THEN /\ last' = call @@ [ raised |-> TRUE, rebuilt |-> FALSE,
                                     returned |-> h.rag_handler ]
                /\ UNCHANGED handlers
           ELSE IF get_model_raises(ResolvedModelType(model_type))
           THEN /\ last' = call @@ [ raised |-> TRUE, rebuilt |-> FALSE,
                                     returned |-> h.rag_handler ]
                /\ handlers' = [ handlers EXCEPT ![server] = connected ]
           ELSE /\ last' = call @@ [ raised |-> FALSE,
                                     rebuilt |-> h.rag_handler.model_type # "None",
                                     returned |-> built ]
                /\ handlers' = [ handlers EXCEPT ![server] =
                                   [ connected EXCEPT !.rag_handler = built ] ]
        /\ UNCHANGED <<store, clock, settings, faults, threads, scheduler>>

\* a request of the REST server that needs the RAG handler
GetRagHandler ==
    \E model_type \in ModelChoices, connects \in BOOLEAN :
        EnsureRagHandler("get_rag_handler", "rest", model_type, connects)

\* an RPC that needs the RAG handler
EnsureRag ==
    \E model_type \in ModelChoices, connects \in BOOLEAN :
        EnsureRagHandler("_ensure_rag_handler", "rpc", model_type, connects)

NextHandlers == GetRagHandler \/ EnsureRag

SpecHandlers == InitDefaults /\ [][NextHandlers]_vars

\* C29: after any sequence of get_rag_handler / _ensure_rag_handler calls, a
\* call that names a model type returns a handler whose model_type is the
\* named one, rebuilding the shared handler only when it differs; a call
\* that names none returns the existing handler unchanged; and every
\* handler built uses the server's single store connection, which is
\* created at most once.
C29_SharedHandlerFollowsModelType ==
    [][ ( last'.op \in { "get_rag_handler", "_ensure_rag_handler" }
          /\ ~ last'.raised )
        => LET old == handlers[last'.server].rag_handler
               new == handlers'[last'.server]
           IN  /\ last'.returned = new.rag_handler
               /\ Named(last'.model_type)
                    => last'.returned.model_type = last'.model_type
               /\ ( old.model_type # "None"
                    /\ ( ~ Named(last'.model_type)
                         \/ old.model_type = last'.model_type ) )
                    => ( last'.returned = old /\ ~ last'.rebuilt )
               /\ last'.returned.vector_handler = new.vector_handler
               /\ new.vector_handler # 0
               /\ new.connections <= 1 ]_vars

\* a call named a model type other than the shared handler's: the handler
\* was rebuilt for it on the connection made before
C29_Witness ==
    /\ last.op = "get_rag_handler" /\ ~ last.raised /\ last.rebuilt
    /\ last.returned.model_type = last.model_type
    /\ last.model_type # settings.llm_provider
    /\ handlers["rest"].connections = 1
    /\ handlers["rest"].rag_handler = last.returned


(***************************************************************************)
(* The scheduler: start() and the job function collect_etf_data.           *)
(* scheduler.runs counts the runs of the job, scheduler.errors the runs    *)
(* that ended in the job's except clause, and scheduler.metadata is the    *)
(* number of the run that last rewrote the metadata file (0: no run has).  *)
(***************************************************************************)

\* the runs of the job that are followed
MaxRuns == 3

\* how initialize_components goes: both components are built, or
\* WeaviateHandler() raises, or ETFDataCollector() raises
InitOutcomes == { "ok", "no_store", "no_collector" }

\* initialize_components: the vector handler is assigned before the
\* collector is constructed, and an error is logged and raised again
initialize_components(sch, initialises) ==
    [ scheduler |-> [ sch EXCEPT !.vector_handler = @ \/ initialises # "no_store",
                                 !.collector = @ \/ initialises = "ok" ],
      raised    |-> initialises # "ok" ]

\* the except clause of collect_etf_data with every error raised again
RunReraised(failed) == failed

\* the except clause of collect_etf_data: the error is logged, not raised
RunPropagated(failed) == FALSE

\* _update_metadata in run number run: the file is rewritten unless the
\* write fails, and a failure is only logged
_update_metadata(sch, run, writes) ==
    [ sch EXCEPT !.metadata = IF writes THEN run ELSE @ ]

\* the ends of one run of collect_etf_data on scheduler sch, each with the
\* scheduler and the collection it leaves
collect_etf_data(sch, initialises, writes, domestic, foreign, dart, content, only_outdated) ==
    LET lazy == ~ sch.collector
        init == IF lazy THEN initialize_components(sch, initialises)
                        ELSE [ scheduler |-> sch, raised |-> FALSE ]
        ran  == [ init.scheduler EXCEPT !.runs = @ + 1 ]
    IN  IF init.raised
        THEN { [ scheduler   |-> [ ran EXCEPT !.errors = @ + 1 ],
                 store       |-> store,
                 clock       |-> clock,
                 initialised |-> lazy,
                 collected   |-> FALSE,
                 raised      |-> RunPropagated(TRUE) ] }
        ELSE { [ scheduler   |-> _update_metadata(ran, ran.runs, writes),
                 store       |-> run.store,
                 clock       |-> run.clock,
                 initialised |-> lazy,
                 collected   |-> TRUE,
                 raised      |-> RunPropagated(FALSE) ] :
               run \in collect_all_runs([ vector_handler |-> TRUE, model |-> TRUE ],
                                        domestic, foreign, dart, content, TRUE,
                                        only_outdated) }

\* what a run or a start can meet when it initialises the components
Initialising(sch) == IF sch.collector THEN { "ok" } ELSE InitOutcomes

\* the crawl handed to a run that fails before it reaches the sources
NoCrawl == [ raised |-> TRUE, etfs |-> <<>> ]

\* the timer (or a caller) fires the job
Run ==
    /\ scheduler.runs < MaxRuns
    /\ \E initialises \in Initialising(scheduler) :
         \E end \in
              IF initialises # "ok"
              THEN collect_etf_data(scheduler, initialises, FALSE, NoCrawl, NoCrawl,
                                    NoCrawl, <<>>, FALSE)
              ELSE UNION { collect_etf_data(scheduler, initialises, writes, domestic,
                                            foreign, dart, content, only_outdated) :
                           <<writes, content, only_outdated, domestic, foreign, dart>>
                             \in { inputs \in BOOLEAN \X ConcurrentBodies \X BOOLEAN
                                              \X Crawls("domestic")
                                              \X Crawls("foreign") \X Crawls("dart") :
                                   clock + Len(inputs[4].etfs) + Len(inputs[5].etfs)
                                         + Len(inputs[6].etfs) <= MaxInserts } } :
           /\ scheduler' = end.scheduler
           /\ store' = end.store
           /\ clock' = end.clock
           /\ last' = [ op          |-> "collect_etf_data",
                        initialised |-> end.initialised,
                        collected   |-> end.collected,
                        raised      |-> end.raised ]
           /\ UNCHANGED <<settings, faults, threads, handlers>>

\* start(run_immediately): nothing when the scheduler is disabled;
\* otherwise the components are initialised, the daily job is added, the
\* job is run once if asked, and the timer is started, which raises when
\* it is running already; every error is raised again
Start ==
    \E enable_scheduler \in BOOLEAN, run_immediately \in BOOLEAN,
       initialises \in InitOutcomes :
        LET init == initialize_components(scheduler, initialises)
            call == [ op |-> "start", enable_scheduler |-> enable_scheduler,
                      run_immediately |-> run_immediately ]
        IN  IF ~ enable_scheduler
            THEN /\ last' = call @@ [ raised |-> FALSE ]
                 /\ UNCHANGED <<store, clock, settings, faults, process>>
            ELSE IF init.raised
            THEN /\ scheduler' = init.scheduler
                 /\ last' = call @@ [ raised |-> TRUE ]
                 /\ UNCHANGED <<store, clock, settings, faults, threads, handlers>>
            ELSE IF ~ run_immediately
            THEN /\ scheduler' = [ init.scheduler EXCEPT !.started = TRUE ]
                 /\ last' = call @@ [ raised |-> scheduler.started ]
                 /\ UNCHANGED <<store, clock, settings, faults, threads, handlers>>
            ELSE /\ scheduler.runs < MaxRuns
                 /\ \E writes \in BOOLEAN, content \in ConcurrentBodies,
                       only_outdated \in BOOLEAN, domestic \in Crawls("domestic"),
                       foreign \in Crawls("foreign"), dart \in Crawls("dart") :
                      /\ clock + Len(domestic.etfs) + Len(foreign.etfs)
                               + Len(dart.etfs) <= MaxInserts
                      /\ \E end \in collect_etf_data(init.scheduler, "ok", writes,
                                                     domestic, foreign, dart, content,
                                                     only_outdated) :
                           /\ scheduler' = [ end.scheduler EXCEPT !.started = TRUE ]
                           /\ store' = end.store
                           /\ clock' = end.clock
                           /\ last' = call @@ [ raised |-> end.raised
                                                            \/ scheduler.started ]
                           /\ UNCHANGED <<settings, faults, threads, handlers>>

NextScheduler == Start \/ Run

SpecScheduler == InitConcurrent /\ [][NextScheduler]_vars

\* C30: a run of collect_etf_data never raises: it initialises the
\* components itself exactly when it finds no collector, it ends without
\* raising whether initialisation failed or the sources did, it leaves the
\* timer as it was and counts as one more run whatever happened, so later
\* runs still fire, and the metadata file is rewritten only in a run in
\* which collect_all returned (and then it names that run).
C30_RunNeverRaises ==
    [][ last'.op = "collect_etf_data"
        => /\ ~ last'.raised
           /\ last'.initialised = ~ scheduler.collector
           /\ scheduler.collector
                => /\ scheduler'.collector = scheduler.collector
                   /\ scheduler'.vector_handler = scheduler.vector_handler
           /\ last'.collected = scheduler'.collector
           /\ scheduler'.started = scheduler.started
           /\ scheduler'.runs = scheduler.runs + 1
           /\ scheduler'.errors = scheduler.errors + ( IF last'.collected THEN 0 ELSE 1 )
           /\ scheduler'.metadata # scheduler.metadata
                => ( last'.collected /\ scheduler'.metadata = scheduler'.runs )
           /\ ~ last'.collected
                => ( store' = store /\ scheduler'.metadata = scheduler.metadata ) ]_vars

\* a run failed in initialisation, and a later run, started by nobody but
\* the job itself, initialised the components, collected into the store
\* and rewrote the metadata file
C30_Witness ==
    /\ last.op = "collect_etf_data" /\ ~ last.raised
    /\ last.initialised /\ last.collected
    /\ scheduler.errors >= 1
    /\ scheduler.runs >= 2
    /\ scheduler.metadata = scheduler.runs
    /\ ~ scheduler.started
    /\ store # {}

====
